---- MODULE Spec2Model ----
(***************************************************************************)
(* The game phase state machine of brizglass: the route handlers of        *)
(* src/app/api/game (start, vote, auto-advance, next-phase, join,          *)
(* statements) acting on one Game record, its Players, Statements and      *)
(* Votes.  Every handler is a sequence of awaited store operations; each   *)
(* store operation is one atomic step, and the handlers of concurrent      *)
(* requests interleave between them.                                       *)
(***************************************************************************)
EXTENDS Integers, Sequences, FiniteSets, TLC

\* ---------------------------------------------------------------- bounds
NumPlayers == 2        \* players that may join the game
NumProcs == 2          \* requests that may be in flight at the same time
MaxVotes == 4          \* vote documents the store may hold
MaxTruePos == 1        \* a submission puts its true statement at order 1..MaxTruePos
MaxVoteOrder == 2      \* a truth vote names a statement of order 1..MaxVoteOrder
MaxAdminVotes == 1     \* vote documents of a game the admin moves on with next-phase
MaxStatusVotes == 2    \* vote documents of a game whose status is asked for
MaxNames == 2          \* nicknames of two characters or more that are asked for
MaxCodes == 3          \* join codes generateGameCode may return

PlayerIds == 1..NumPlayers
Procs == 1..NumProcs
None == 0              \* currentPlayerId of a game that has not started (null)
NoStatement == <<0, 0>>

VoteTypes == {"author", "truth"}
AdminTokens == {"admin", "wrong"}
TheAdminToken == "admin"

VARIABLES
    otherGames,  \* the other Game documents of the store, in creation order
    game,        \* the Game document: status, currentRound, truthRound, currentPlayerId, playerOrder
    joined,      \* ids of the Player documents of the game
    nickname,    \* nickname of every Player document, <<>> before it is created
    ready,       \* players with hasSubmittedStatements = true
    guessed,     \* players with hasBeenGuessed = true
    score,       \* score of every player
    trueOrder,   \* order (1..3) of the true statement of a player, 0 before submission
    statementDocs, \* the Statement documents of every player, in creation order
    votes,       \* the Vote documents, in creation order
    req          \* per request slot: the handler's position and its local variables

vars == <<otherGames, game, joined, nickname, ready, guessed, score, trueOrder, statementDocs, votes, req>>
store == <<otherGames, game, joined, nickname, ready, guessed, score, trueOrder, statementDocs, votes>>

\* ------------------------------------------------------------- documents
\* A game as create/route.ts makes it; truthRound takes the collection's default 0,
\* playerOrder has no default and reads as [] through `(game.playerOrder as string[]) || []`.
NewGame ==
    [status |-> "lobby", currentRound |-> 0, truthRound |-> 0,
     currentPlayerId |-> None, playerOrder |-> <<>>]

\* The locals of a handler that is not running.
IdleReq ==
    [pc |-> "idle", op |-> "none", g |-> NewGame,
     voter |-> None, voteType |-> "none", votedPlayer |-> None,
     votedStatement |-> NoStatement, isCorrect |-> FALSE,
     eligibleVoters |-> 0, calc |-> "none", round |-> 0, todo |-> <<>>,
     voterScore |-> 0, currentPlayerScore |-> 0, foolingPoints |-> 0,
     nextPlayer |-> None,
     player |-> None, statements |-> <<>>, i |-> 0, nickname |-> <<>>,
     code |-> 0, attempts |-> 0]

\* A handler returns its response: its locals are dropped.
Respond(p) == req' = [req EXCEPT ![p] = IdleReq]

Min(S) == CHOOSE x \in S : \A y \in S : x <= y

\* Statement documents: player p's statements are <<p, 1>>, <<p, 2>>, <<p, 3>>.
Statements == {<<p, o>> : p \in ready, o \in 1..3}
isTrue(s) == trueOrder[s[1]] = s[2]
\* what a voter may send: the on-stage player or the first other player as author,
\* one of the first MaxVoteOrder statements of the on-stage player as the true
\* one, or the id of another player's true statement
AuthorGuesses ==
    {game.currentPlayerId} \cup
    (IF joined \ {game.currentPlayerId} = {} THEN {}
     ELSE {Min(joined \ {game.currentPlayerId})})
TruthGuesses ==
    {s \in Statements : s[1] = game.currentPlayerId /\ s[2] <= MaxVoteOrder}
    \cup {s \in Statements : s[1] # game.currentPlayerId /\ isTrue(s)}

\* --------------------------------------------------------------- create
\* POST /api/game/create.  A join code is a number of 1..MaxCodes; the game that
\* is played has the code TheGameCode.
Codes == 1..MaxCodes
TheGameCode == 1
MaxAttempts == 10

\* the codes of the Game documents of the store
ExistingCodes == {TheGameCode} \cup {otherGames[k].code : k \in 1..Len(otherGames)}

\* code = generateGameCode(), attempts = 0
CreateBegin(p, code) ==
    /\ req[p].pc = "idle"
    /\ req' = [req EXCEPT ![p] =
           [IdleReq EXCEPT !.pc = "create_find", !.op = "create", !.code = code]]
    /\ UNCHANGED store

\* one turn of the loop: the find of a game with the code; a code that is taken
\* is replaced by another generateGameCode(), and after MaxAttempts of them the
\* handler returns 500
CreateFind(p, code) ==
    LET r == req[p] IN
    /\ r.pc = "create_find"
    /\ req' = [req EXCEPT ![p] =
           IF r.code \notin ExistingCodes THEN [r EXCEPT !.pc = "create_insert"]
           ELSE IF r.attempts + 1 < MaxAttempts
                  THEN [r EXCEPT !.code = code, !.attempts = r.attempts + 1]
           ELSE IdleReq]
    /\ UNCHANGED store

\* payload.create of the game; the unique index on code makes it throw, and the
\* handler return 500, if a game with the code has been created meanwhile
CreateInsert(p) ==
    /\ req[p].pc = "create_insert"
    /\ otherGames' =
           IF req[p].code \in ExistingCodes THEN otherGames
           ELSE Append(otherGames,
                    [code |-> req[p].code, status |-> "lobby", currentRound |-> 0,
                     truthRound |-> 0, currentPlayerId |-> None, playerOrder |-> <<>>])
    /\ Respond(p)
    /\ UNCHANGED <<game, joined, nickname, ready, guessed, score, trueOrder, statementDocs, votes>>

\* --------------------------------------------------------------- lobby
\* A nickname is a sequence of characters; Name(n) has n + 1 of them.
Name(n) == [k \in 1..(n + 1) |-> "a"]

\* POST /api/game/join of a player whose nickname nobody else asks for and whose
\* request is served before any other is: the new Player document takes the next
\* id of the store.  The steps of the handler are JoinBegin .. JoinCreate below.
Join(nick) ==
    /\ game.status = "lobby"
    /\ nick = Cardinality(joined) + 1
    /\ nick <= NumPlayers
    /\ joined' = joined \cup {nick}
    /\ nickname' = [nickname EXCEPT ![nick] = Name(nick)]
    /\ UNCHANGED <<otherGames, game, ready, guessed, score, trueOrder, statementDocs, votes, req>>

\* POST /api/game/join, step by step: the checks of the nickname and of the game
\* as read
JoinCheck(g, nick) ==
    IF Len(nick) < 2 \/ Len(nick) > 20 THEN "400"
    ELSE IF g.status # "lobby" THEN "400"
    ELSE "ok"

JoinBegin(p, nick) ==
    /\ req[p].pc = "idle"
    /\ IF JoinCheck(game, nick) = "ok"
         THEN req' = [req EXCEPT ![p] =
                  [IdleReq EXCEPT !.pc = "join_existing", !.op = "join", !.g = game,
                                  !.nickname = nick]]
         ELSE Respond(p)
    /\ UNCHANGED store

\* existingPlayers: a player of the game with this nickname
JoinCheckExisting(p) ==
    /\ req[p].pc = "join_existing"
    /\ IF \E player \in joined : nickname[player] = req[p].nickname
         THEN Respond(p)
         ELSE req' = [req EXCEPT ![p].pc = "join_create"]
    /\ UNCHANGED store

\* payload.create of the player, which takes the next id of the store
JoinCreate(p) ==
    LET id == Cardinality(joined) + 1 IN
    /\ req[p].pc = "join_create"
    /\ id <= NumPlayers
    /\ joined' = joined \cup {id}
    /\ nickname' = [nickname EXCEPT ![id] = req[p].nickname]
    /\ Respond(p)
    /\ UNCHANGED <<otherGames, game, ready, guessed, score, trueOrder, statementDocs, votes>>

\* the three documents of a submission with its true statement at order truePos
StatementsOf(player, truePos) ==
    [o \in 1..3 |-> [player |-> player, order |-> o, isTrue |-> (o = truePos),
                     text |-> <<"a", "b", "c">>]]

\* POST /api/game/statements of a player who sends three statements, exactly one
\* of them true, and whose request is served before any other is: the three
\* documents and hasSubmittedStatements.  The steps of the handler are
\* StatementsBegin .. StatementsMark below.
SubmitStatements(player, truePos) ==
    /\ player \in joined
    /\ player \notin ready
    /\ game.status = "lobby"
    /\ trueOrder' = [trueOrder EXCEPT ![player] = truePos]
    /\ statementDocs' = [statementDocs EXCEPT ![player] = @ \o StatementsOf(player, truePos)]
    /\ ready' = ready \cup {player}
    /\ UNCHANGED <<otherGames, game, joined, nickname, guessed, score, votes, req>>

\* POST /api/game/statements, step by step.  A text is a sequence of characters.
RECURSIVE TrimStart(_)
TrimStart(text) ==
    IF text # <<>> /\ Head(text) = " " THEN TrimStart(Tail(text)) ELSE text

RECURSIVE TrimEnd(_)
TrimEnd(text) ==
    IF text # <<>> /\ text[Len(text)] = " " THEN TrimEnd(SubSeq(text, 1, Len(text) - 1))
    ELSE text

trim(text) == TrimEnd(TrimStart(text))

trueCount(statements) == Cardinality({k \in 1..Len(statements) : statements[k].isTrue})

\* the checks of a submission with the count of the true statements left out:
\* what C29 rests on
StatementsCheckAnyTruth(statements, hasSubmittedStatements) ==
    IF Len(statements) # 3 THEN "400"
    ELSE IF \E k \in 1..Len(statements) :
                statements[k].text = <<>> \/ Len(trim(statements[k].text)) < 3 THEN "400"
    ELSE IF hasSubmittedStatements THEN "400"
    ELSE "ok"

\* the checks before the game is read: three statements, one of them true, each
\* of three characters or more once trimmed, and a player who has not submitted
StatementsCheck(statements, hasSubmittedStatements) ==
    IF Len(statements) # 3 THEN "400"
    ELSE IF trueCount(statements) # 1 THEN "400"
    ELSE IF \E k \in 1..Len(statements) :
                statements[k].text = <<>> \/ Len(trim(statements[k].text)) < 3 THEN "400"
    ELSE IF hasSubmittedStatements THEN "400"
    ELSE "ok"

StatementsBegin(p, player, statements) ==
    /\ req[p].pc = "idle"
    /\ player \in joined
    /\ IF StatementsCheck(statements, player \in ready) = "ok"
         THEN req' = [req EXCEPT ![p] =
                  [IdleReq EXCEPT !.pc = "statements_game", !.op = "statements",
                                  !.player = player, !.statements = statements]]
         ELSE Respond(p)
    /\ UNCHANGED store

\* findByID of the game: a game that has left the lobby takes no statements
StatementsFindGame(p) ==
    /\ req[p].pc = "statements_game"
    /\ IF game.status # "lobby"
         THEN Respond(p)
         ELSE req' = [req EXCEPT ![p].pc = "statements_create", ![p].g = game]
    /\ UNCHANGED store

\* payload.create of statements[i], with order i + 1 and its text trimmed
StatementsCreate(p) ==
    LET r == req[p]
        statement == r.statements[r.i + 1]
    IN
    /\ r.pc = "statements_create"
    /\ statementDocs' = [statementDocs EXCEPT ![r.player] =
           Append(@, [player |-> r.player, order |-> r.i + 1,
                      isTrue |-> statement.isTrue, text |-> trim(statement.text)])]
    /\ req' = [req EXCEPT ![p].i = r.i + 1,
                          ![p].pc = IF r.i + 1 < Len(r.statements) THEN "statements_create"
                                    ELSE "statements_mark"]
    /\ UNCHANGED <<otherGames, game, joined, nickname, ready, guessed, score, trueOrder, votes>>

\* payload.update of the player: hasSubmittedStatements = true
StatementsMark(p) ==
    LET r == req[p] IN
    /\ r.pc = "statements_mark"
    /\ ready' = ready \cup {r.player}
    /\ trueOrder' = [trueOrder EXCEPT ![r.player] =
           Min({k \in 1..Len(r.statements) : r.statements[k].isTrue})]
    /\ Respond(p)
    /\ UNCHANGED <<otherGames, game, joined, nickname, guessed, score, statementDocs, votes>>

\* --------------------------------------------------------------- start
\* the checks of a start with the test of the status left out: what C9 rests on
StartCheckAnyStatus(g, adminToken) ==
    IF adminToken # TheAdminToken THEN "403" ELSE "ok"

\* POST /api/game/start, the checks on the game as read: the response they end the
\* request with, or "ok".  A request that is refused here returns at once.
StartCheck(g, adminToken) ==
    IF adminToken # TheAdminToken THEN "403"
    ELSE IF g.status # "lobby" THEN "400"
    ELSE "ok"

StartBegin(p, adminToken) ==
    /\ req[p].pc = "idle"
    /\ IF StartCheck(game, adminToken) = "ok"
         THEN req' = [req EXCEPT ![p] =
                  [IdleReq EXCEPT !.pc = "start_players", !.op = "start", !.g = game]]
         ELSE Respond(p)
    /\ UNCHANGED store

\* find the players with hasSubmittedStatements, pick the first not yet guessed
StartFindPlayers(p) ==
    /\ req[p].pc = "start_players"
    /\ IF Cardinality(ready) < 2 \/ ready \ guessed = {}
         THEN Respond(p)
         ELSE req' = [req EXCEPT ![p].pc = "start_update",
                                    ![p].nextPlayer = Min(ready \ guessed)]
    /\ UNCHANGED store

\* update the game: status, currentRound and currentPlayerId, nothing else
StartUpdate(p) ==
    /\ req[p].pc = "start_update"
    /\ game' = [game EXCEPT !.status = "voting-author",
                            !.currentRound = 1,
                            !.currentPlayerId = req[p].nextPlayer]
    /\ Respond(p)
    /\ UNCHANGED <<otherGames, joined, nickname, ready, guessed, score, trueOrder, statementDocs, votes>>

\* ---------------------------------------------------------------- vote
\* roundToCheck: author votes go under currentRound, truth votes under truthRound
roundToCheck(g, voteType) == IF voteType = "author" THEN g.currentRound ELSE g.truthRound

\* the votes of a round and vote type, in creation order
RECURSIVE VotesOf(_, _, _)
VotesOf(vs, round, voteType) ==
    IF vs = <<>> THEN <<>>
    ELSE LET rest == VotesOf(Tail(vs), round, voteType)
         IN IF Head(vs).round = round /\ Head(vs).voteType = voteType
              THEN <<Head(vs)>> \o rest ELSE rest

RECURSIVE CorrectOnly(_)
CorrectOnly(vs) ==
    IF vs = <<>> THEN <<>>
    ELSE IF Head(vs).isCorrect THEN <<Head(vs)>> \o CorrectOnly(Tail(vs))
         ELSE CorrectOnly(Tail(vs))

\* the checks of a vote with the test of the on-stage player left out: what C17 rests on
VoteCheckAnyVoter(g, voter, voteType) ==
    IF voteType = "author" /\ g.status # "voting-author" THEN "400"
    ELSE IF voteType = "truth" /\ g.status # "voting-truth" THEN "400"
    ELSE "ok"

\* the checks of a vote with the tests of the phase left out: what C18 rests on
VoteCheckAnyPhase(g, voter, voteType) ==
    IF voter = g.currentPlayerId THEN "400" ELSE "ok"

\* POST /api/game/vote, the checks on the game as read: the phase of the vote type,
\* and no vote on one's own statements.
VoteCheck(g, voter, voteType) ==
    IF voteType = "author" /\ g.status # "voting-author" THEN "400"
    ELSE IF voteType = "truth" /\ g.status # "voting-truth" THEN "400"
    ELSE IF voter = g.currentPlayerId THEN "400"
    ELSE "ok"

VoteBegin(p, voter, voteType, votedPlayerId, votedStatementId) ==
    /\ req[p].pc = "idle"
    /\ voter \in joined
    /\ IF VoteCheck(game, voter, voteType) = "ok"
         THEN req' = [req EXCEPT ![p] =
                  [IdleReq EXCEPT !.pc = "vote_existing", !.op = "vote", !.g = game,
                                  !.voter = voter, !.voteType = voteType,
                                  !.votedPlayer = votedPlayerId,
                                  !.votedStatement = votedStatementId]]
         ELSE Respond(p)
    /\ UNCHANGED store

\* existingVotes, then isCorrect from the game as read and from the statement
VoteCheckExisting(p) ==
    LET r == req[p]
        existingVotes == \E i \in 1..Len(votes) :
            /\ votes[i].round = roundToCheck(r.g, r.voteType)
            /\ votes[i].voter = r.voter
            /\ votes[i].voteType = r.voteType
    IN
    /\ r.pc = "vote_existing"
    /\ IF existingVotes
         THEN Respond(p)
         ELSE req' = [req EXCEPT ![p].pc = "vote_create",
                           ![p].isCorrect =
                               IF r.voteType = "author"
                                 THEN r.votedPlayer = r.g.currentPlayerId
                                 ELSE isTrue(r.votedStatement)]
    /\ UNCHANGED store

\* payload.create of the vote
VoteCreate(p) ==
    LET r == req[p] IN
    /\ r.pc = "vote_create"
    /\ Len(votes) < MaxVotes
    /\ votes' = Append(votes,
           [round |-> roundToCheck(r.g, r.voteType), voter |-> r.voter,
            voteType |-> r.voteType, votedPlayer |-> r.votedPlayer,
            votedStatement |-> r.votedStatement, isCorrect |-> r.isCorrect])
    /\ req' = [req EXCEPT ![p].pc = "vote_players"]
    /\ UNCHANGED <<otherGames, game, joined, nickname, ready, guessed, score, trueOrder, statementDocs>>

\* allPlayers of the game, all but the on-stage player of the game as read
VoteFindPlayers(p) ==
    /\ req[p].pc = "vote_players"
    /\ req' = [req EXCEPT ![p].pc = "vote_count",
                          ![p].eligibleVoters =
                              Cardinality(joined \ {req[p].g.currentPlayerId})]
    /\ UNCHANGED store

\* a count that takes every vote for the one that completes the quorum: what C37
\* excludes
VoteCountAlways(p) ==
    LET r == req[p] IN
    /\ r.pc = "vote_count"
    /\ req' = [req EXCEPT ![p] =
           IF r.voteType = "author"
             THEN [r EXCEPT !.pc = "vote_update"]
             ELSE [r EXCEPT !.calc = "truth", !.round = r.g.truthRound, !.pc = "calc_find"]]
    /\ UNCHANGED store

\* currentVotes against eligibleVoters, and the branch the handler takes
VoteCount(p) ==
    LET r == req[p]
        currentVotes == Len(VotesOf(votes, roundToCheck(r.g, r.voteType), r.voteType))
        totalPlayers == Len(r.g.playerOrder)
    IN
    /\ r.pc = "vote_count"
    /\ IF currentVotes >= r.eligibleVoters
         THEN req' = [req EXCEPT ![p] =
                   IF r.voteType = "author"
                     THEN IF r.g.currentRound < totalPlayers
                            THEN [r EXCEPT !.pc = "vote_update"]
                            ELSE [r EXCEPT !.calc = "allAuthor", !.round = 1,
                                           !.pc = IF totalPlayers >= 1 THEN "calc_find"
                                                  ELSE "vote_update"]
                     ELSE [r EXCEPT !.calc = "truth", !.round = r.g.truthRound,
                                    !.pc = "calc_find"]]
         ELSE Respond(p)
    /\ UNCHANGED store

\* the update of a vote that also moves truthRound on: what C13 excludes
VoteUpdateNextRound(p) ==
    /\ req[p].pc = "vote_update"
    /\ game' = [game EXCEPT
           !.status = IF req[p].voteType = "truth" THEN "results-truth" ELSE "results-author",
           !.currentRound = req[p].g.currentRound,
           !.truthRound = req[p].g.truthRound + 1,
           !.currentPlayerId = req[p].g.currentPlayerId]
    /\ Respond(p)
    /\ UNCHANGED <<otherGames, joined, nickname, ready, guessed, score, trueOrder, statementDocs, votes>>

\* the update of a vote that also writes the order of play: what C21 excludes
VoteUpdateReorder(p) ==
    /\ req[p].pc = "vote_update"
    /\ game' = [game EXCEPT
           !.status = IF req[p].voteType = "truth" THEN "results-truth" ELSE "results-author",
           !.currentRound = req[p].g.currentRound,
           !.truthRound = req[p].g.truthRound,
           !.currentPlayerId = req[p].g.currentPlayerId,
           !.playerOrder = <<req[p].g.currentPlayerId>>]
    /\ Respond(p)
    /\ UNCHANGED <<otherGames, joined, nickname, ready, guessed, score, trueOrder, statementDocs, votes>>

\* payload.update of the game with the values computed from the game as read
VoteUpdate(p) ==
    LET g == req[p].g
        advance == req[p].voteType = "author" /\ g.currentRound < Len(g.playerOrder)
    IN
    /\ req[p].pc = "vote_update"
    /\ game' = [game EXCEPT
           !.status = IF req[p].voteType = "truth" THEN "results-truth"
                      ELSE IF advance THEN "voting-author" ELSE "results-author",
           !.currentRound = IF advance THEN g.currentRound + 1 ELSE g.currentRound,
           !.truthRound = g.truthRound,
           !.currentPlayerId = IF advance THEN g.playerOrder[g.currentRound + 1]
                               ELSE g.currentPlayerId]
    /\ Respond(p)
    /\ UNCHANGED <<otherGames, joined, nickname, ready, guessed, score, trueOrder, statementDocs, votes>>

\* -------------------------------------------------------------- scoring
\* calculateAllAuthorPoints, calculateAuthorPoints and calculateTruthPoints: one
\* find of the votes, then per vote a read of the voter and an update of its score.
UpdatePc(r) == IF r.op = "vote" THEN "vote_update" ELSE "next_update"

\* where the scoring pass goes once the votes of r.round are done with
AfterVotes(r) ==
    IF r.calc = "allAuthor"
      THEN IF r.round + 1 <= Len(r.g.playerOrder)
             THEN [r EXCEPT !.round = r.round + 1, !.pc = "calc_find"]
             ELSE [r EXCEPT !.pc = UpdatePc(r)]
      ELSE IF r.calc = "truth" /\ r.foolingPoints > 0
             THEN [r EXCEPT !.pc = "calc_fooling"]
             ELSE [r EXCEPT !.pc = UpdatePc(r)]

AfterVote(r) == IF r.todo = <<>> THEN AfterVotes(r) ELSE [r EXCEPT !.pc = "calc_read"]

CalcFindVotes(p) ==
    LET r == req[p]
        found == IF r.calc = "truth" THEN VotesOf(votes, r.round, "truth")
                 ELSE CorrectOnly(VotesOf(votes, r.round, "author"))
        r1 == [r EXCEPT !.todo = found]
    IN
    /\ r.pc = "calc_find"
    /\ req' = [req EXCEPT ![p] =
           IF r.calc = "truth" THEN [r1 EXCEPT !.pc = "calc_player"] ELSE AfterVote(r1)]
    /\ UNCHANGED store

\* calculateTruthPoints reads the on-stage player before the loop
CalcReadCurrentPlayer(p) ==
    LET r == req[p] IN
    /\ r.pc = "calc_player"
    /\ req' = [req EXCEPT ![p] =
           AfterVote([r EXCEPT !.currentPlayerScore = score[r.g.currentPlayerId]])]
    /\ UNCHANGED store

\* findByID of the voter; a wrong truth vote only counts towards foolingPoints
CalcReadVoter(p) ==
    LET r == req[p]
        vote == Head(r.todo)
    IN
    /\ r.pc = "calc_read"
    /\ req' = [req EXCEPT ![p] =
           IF vote.isCorrect
             THEN [r EXCEPT !.voterScore = score[vote.voter], !.pc = "calc_write"]
             ELSE AfterVote([r EXCEPT !.foolingPoints = r.foolingPoints + 1,
                                      !.todo = Tail(r.todo)])]
    /\ UNCHANGED store

\* update of the voter: score = (voter.score || 0) + 1, from the score as read
CalcUpdateVoter(p) ==
    LET r == req[p]
        vote == Head(r.todo)
    IN
    /\ r.pc = "calc_write"
    /\ score' = [score EXCEPT ![vote.voter] = r.voterScore + 1]
    /\ req' = [req EXCEPT ![p] = AfterVote([r EXCEPT !.todo = Tail(r.todo), !.voterScore = 0])]
    /\ UNCHANGED <<otherGames, game, joined, nickname, ready, guessed, trueOrder, statementDocs, votes>>

\* update of the on-stage player: score = (currentPlayer.score || 0) + foolingPoints
CalcAwardFooling(p) ==
    LET r == req[p] IN
    /\ r.pc = "calc_fooling"
    /\ score' = [score EXCEPT ![r.g.currentPlayerId] = r.currentPlayerScore + r.foolingPoints]
    /\ req' = [req EXCEPT ![p].pc = UpdatePc(r)]
    /\ UNCHANGED <<otherGames, game, joined, nickname, ready, guessed, trueOrder, statementDocs, votes>>


\* --------------------------------------------------------- auto-advance
\* an auto-advance with the test of the status left out: what C19 rests on
AutoAdvanceCheckAnyStatus(g) == "ok"

\* POST /api/game/auto-advance: no admin token, legal from the results phases only.
AutoAdvanceCheck(g) ==
    IF g.status \notin {"results-author", "results-truth"} THEN "400" ELSE "ok"

AutoAdvanceBegin(p) ==
    /\ req[p].pc = "idle"
    /\ IF AutoAdvanceCheck(game) = "ok"
         THEN req' = [req EXCEPT ![p] =
                  [IdleReq EXCEPT !.op = "auto-advance", !.g = game,
                                  !.pc = IF game.status = "results-author" THEN "advance_update"
                                         ELSE IF game.currentPlayerId # None THEN "mark_guessed"
                                         ELSE "find_next"]]
         ELSE Respond(p)
    /\ UNCHANGED store

\* results-truth: hasBeenGuessed = true on the on-stage player of the game as read
\* (the same lines in auto-advance and in next-phase)
MarkGuessed(p) ==
    /\ req[p].pc = "mark_guessed"
    /\ guessed' = guessed \cup {req[p].g.currentPlayerId}
    /\ req' = [req EXCEPT ![p].pc = "find_next"]
    /\ UNCHANGED <<otherGames, game, joined, nickname, ready, score, trueOrder, statementDocs, votes>>

\* findNextPlayer: the first player with statements who has not been guessed, or null
findNextPlayer == IF ready \ guessed = {} THEN None ELSE Min(ready \ guessed)

FindNext(p) ==
    /\ req[p].pc = "find_next"
    /\ req' = [req EXCEPT ![p].nextPlayer = findNextPlayer,
                          ![p].pc = IF req[p].op = "auto-advance" THEN "advance_update"
                                    ELSE "next_update"]
    /\ UNCHANGED store

\* the status a results phase of the game as read leads to
AfterResults(r) ==
    IF r.g.status = "results-author" THEN "voting-truth"
    ELSE IF r.nextPlayer # None THEN "voting-author" ELSE "finished"

\* payload.update of the game: status, currentRound and currentPlayerId
AutoAdvanceUpdate(p) ==
    LET r == req[p]
        again == r.g.status = "results-truth" /\ r.nextPlayer # None
    IN
    /\ r.pc = "advance_update"
    /\ game' = [game EXCEPT
           !.status = AfterResults(r),
           !.currentRound = IF again THEN r.g.currentRound + 1 ELSE r.g.currentRound,
           !.currentPlayerId = IF again THEN r.nextPlayer ELSE r.g.currentPlayerId]
    /\ Respond(p)
    /\ UNCHANGED <<otherGames, joined, nickname, ready, guessed, score, trueOrder, statementDocs, votes>>

\* ----------------------------------------------------------- next-phase
\* a next-phase with the test of the token left out: what C20 rests on
NextPhaseCheckAnyToken(g, adminToken) ==
    IF g.status \in {"lobby", "finished"} THEN "400" ELSE "ok"

\* POST /api/game/next-phase (admin): the token, then the switch on the status as read
NextPhaseCheck(g, adminToken) ==
    IF adminToken # TheAdminToken THEN "403"
    ELSE IF g.status \in {"lobby", "finished"} THEN "400"
    ELSE "ok"

NextPhaseBegin(p, adminToken) ==
    LET scoring == game.status \in {"voting-author", "voting-truth"} IN
    /\ req[p].pc = "idle"
    /\ IF NextPhaseCheck(game, adminToken) = "ok"
         THEN req' = [req EXCEPT ![p] =
           [IdleReq EXCEPT
               !.op = "next-phase", !.g = game,
               !.calc = IF scoring /\ game.currentPlayerId # None
                          THEN (IF game.status = "voting-author" THEN "author" ELSE "truth")
                          ELSE "none",
               !.round = IF scoring /\ game.currentPlayerId # None
                           THEN game.currentRound ELSE 0,
               !.pc = IF scoring
                        THEN (IF game.currentPlayerId # None THEN "calc_find"
                              ELSE "next_update")
                      ELSE IF game.status = "results-author" THEN "next_update"
                      ELSE IF game.currentPlayerId # None THEN "mark_guessed"
                      ELSE "find_next"]]
         ELSE Respond(p)
    /\ UNCHANGED store

\* an update that goes from a vote straight to the next vote, over its results:
\* what C39 excludes
NextPhaseUpdateSkipResults(p) ==
    LET r == req[p]
        again == r.g.status = "results-truth" /\ r.nextPlayer # None
    IN
    /\ r.pc = "next_update"
    /\ game' = [game EXCEPT
           !.status = IF r.g.status = "voting-author" THEN "voting-truth"
                      ELSE IF r.g.status = "voting-truth" THEN "results-truth"
                      ELSE AfterResults(r),
           !.currentRound = IF again THEN r.g.currentRound + 1 ELSE r.g.currentRound,
           !.currentPlayerId = IF again THEN r.nextPlayer ELSE r.g.currentPlayerId]
    /\ Respond(p)
    /\ UNCHANGED <<otherGames, joined, nickname, ready, guessed, score, trueOrder, statementDocs, votes>>

\* payload.update of the game: status, currentRound and currentPlayerId
NextPhaseUpdate(p) ==
    LET r == req[p]
        again == r.g.status = "results-truth" /\ r.nextPlayer # None
    IN
    /\ r.pc = "next_update"
    /\ game' = [game EXCEPT
           !.status = IF r.g.status = "voting-author" THEN "results-author"
                      ELSE IF r.g.status = "voting-truth" THEN "results-truth"
                      ELSE AfterResults(r),
           !.currentRound = IF again THEN r.g.currentRound + 1 ELSE r.g.currentRound,
           !.currentPlayerId = IF again THEN r.nextPlayer ELSE r.g.currentPlayerId]
    /\ Respond(p)
    /\ UNCHANGED <<otherGames, joined, nickname, ready, guessed, score, trueOrder, statementDocs, votes>>


\* --------------------------------------------------------------- status
\* GET /api/game/[code]/status.  The handler reads the game once (g, the game as
\* read) and builds its response from g and from the players, statements and
\* votes (vs) it finds; caller is the player of the session cookie, None without
\* one.  A value that is null or left out of the JSON is the empty sequence, a
\* value that is present a sequence of one element.

\* the status query with the truth of the statements shown in every phase: what
\* C26 rests on
RevealTruthAlways(status) == TRUE

\* isTrue of a statement is shown in results-truth and finished only
RevealTruth(status) == status \in {"results-truth", "finished"}

\* sort: "order" of a find of statements
RECURSIVE OfOrder(_, _)
OfOrder(docs, o) ==
    IF docs = <<>> THEN <<>>
    ELSE IF Head(docs).order = o THEN <<Head(docs)>> \o OfOrder(Tail(docs), o)
    ELSE OfOrder(Tail(docs), o)

SortedByOrder(docs) == OfOrder(docs, 1) \o OfOrder(docs, 2) \o OfOrder(docs, 3)

\* currentStatements: the statements of the on-stage player, sorted by order
currentStatements(g) ==
    IF g.currentPlayerId # None
           /\ g.status \in {"voting-author", "voting-truth", "results-truth"}
      THEN LET docs == SortedByOrder(statementDocs[g.currentPlayerId]) IN
           [k \in 1..Len(docs) |->
               [id |-> <<g.currentPlayerId, docs[k].order>>,
                order |-> docs[k].order,
                isTrue |-> IF RevealTruth(g.status)
                             THEN (IF docs[k].isTrue THEN "true" ELSE "false")
                             ELSE "undefined"]]
      ELSE <<>>

roundForVoteCheck(g) ==
    IF g.status \in {"voting-author", "results-author"} THEN g.currentRound ELSE g.truthRound

hasVotedAuthor(g, vs, caller) ==
    /\ caller \in joined
    /\ roundForVoteCheck(g) > 0
    /\ g.currentRound > 0
    /\ \E i \in 1..Len(vs) :
           vs[i].round = g.currentRound /\ vs[i].voter = caller /\ vs[i].voteType = "author"

hasVotedTruth(g, vs, caller) ==
    /\ caller \in joined
    /\ roundForVoteCheck(g) > 0
    /\ g.truthRound > 0
    /\ \E i \in 1..Len(vs) :
           vs[i].round = g.truthRound /\ vs[i].voter = caller /\ vs[i].voteType = "truth"

\* the breakdown of the latest author round only: what C28 excludes
AuthorResultsOfLatestRound(g, vs) ==
    IF g.status = "results-author" /\ g.currentRound \in 1..Len(g.playerOrder)
      THEN <<[k \in 1..1 |->
                 [round |-> g.currentRound,
                  playerId |-> g.playerOrder[g.currentRound],
                  statements |->
                      [o \in 1..3 |-> [id |-> <<g.playerOrder[g.currentRound], o>>, order |-> o]],
                  votes |->
                      LET found == VotesOf(vs, g.currentRound, "author") IN
                      [i \in 1..Len(found) |->
                          [voter |-> found[i].voter,
                           votedPlayer |-> found[i].votedPlayer,
                           isCorrect |-> found[i].isCorrect]]]]>>
      ELSE <<>>

\* allAuthorResults: in results-author one entry per round of playerOrder, with
\* the player of the round, its statements (no isTrue) and the author votes of
\* the round
allAuthorResults(g, vs) ==
    IF g.status = "results-author"
      THEN <<[round \in 1..Len(g.playerOrder) |->
                 [round |-> round,
                  playerId |-> g.playerOrder[round],
                  statements |->
                      LET docs == SortedByOrder(statementDocs[g.playerOrder[round]]) IN
                      [k \in 1..Len(docs) |->
                          [id |-> <<g.playerOrder[round], docs[k].order>>,
                           order |-> docs[k].order]],
                  votes |->
                      LET found == VotesOf(vs, round, "author") IN
                      [i \in 1..Len(found) |->
                          [voter |-> found[i].voter,
                           votedPlayer |-> found[i].votedPlayer,
                           isCorrect |-> found[i].isCorrect]]]]>>
      ELSE <<>>

\* voteResults: in results-truth the truth votes of truthRound
voteResults(g, vs) ==
    IF g.status = "results-truth"
      THEN LET found == VotesOf(vs, g.truthRound, "truth") IN
           <<[i \in 1..Len(found) |->
                 [voter |-> found[i].voter,
                  votedStatement |-> found[i].votedStatement,
                  isCorrect |-> found[i].isCorrect]]>>
      ELSE <<>>

\* currentVotesData: in voting-author the count of the round's author votes and
\* no voter id, in voting-truth (truthRound > 0) the truth votes and their voters
currentVotesData(g, vs) ==
    IF g.status = "voting-author" /\ g.currentRound > 0
      THEN [totalDocs |-> Len(VotesOf(vs, g.currentRound, "author")), voterIds |-> {}]
    ELSE IF g.status = "voting-truth" /\ g.truthRound > 0
      THEN LET found == VotesOf(vs, g.truthRound, "truth") IN
           [totalDocs |-> Len(found), voterIds |-> {found[i].voter : i \in 1..Len(found)}]
    ELSE [totalDocs |-> 0, voterIds |-> {}]

\* the status query with the roster of the voters in both voting phases, each
\* with the votes of its round: what C27 rests on
RosterInEveryVote(g, vs) ==
    IF g.status \in {"voting-author", "voting-truth"}
      THEN <<[p \in joined \ {g.currentPlayerId} |->
                 [id |-> p,
                  hasVoted |-> \E i \in 1..Len(vs) :
                      /\ vs[i].voter = p
                      /\ vs[i].round = roundForVoteCheck(g)
                      /\ vs[i].voteType =
                             (IF g.status = "voting-author" THEN "author" ELSE "truth")]]>>
      ELSE <<>>

\* voterStatus: the eligible voters with hasVoted, in voting-truth only
voterStatus(g, vs) ==
    IF g.status = "voting-truth"
      THEN <<[p \in joined \ {g.currentPlayerId} |->
                 [id |-> p, hasVoted |-> p \in currentVotesData(g, vs).voterIds]]>>
      ELSE <<>>

\* the JSON of the response
StatusResponse(g, vs, caller) ==
    [game |-> [status |-> g.status, currentRound |-> g.currentRound,
               truthRound |-> g.truthRound, totalPlayers |-> Len(g.playerOrder)],
     players |-> [p \in joined |->
                     [id |-> p, score |-> score[p],
                      hasSubmittedStatements |-> p \in ready,
                      isCurrentRoundPlayer |-> p = g.currentPlayerId]],
     currentPlayer |->
         IF caller \in joined
           THEN <<[id |-> caller,
                   hasSubmittedStatements |-> caller \in ready,
                   hasVotedAuthor |-> hasVotedAuthor(g, vs, caller),
                   hasVotedTruth |-> hasVotedTruth(g, vs, caller),
                   isCurrentRoundPlayer |-> caller = g.currentPlayerId]>>
           ELSE <<>>,
     currentRound |->
         IF g.status \in {"voting-author", "voting-truth", "results-truth"}
                /\ g.currentPlayerId # None
           THEN <<[playerId |-> g.currentPlayerId,
                   statements |-> currentStatements(g),
                   voteResults |-> voteResults(g, vs),
                   votesReceived |-> currentVotesData(g, vs).totalDocs,
                   votesNeeded |-> Cardinality(joined \ {g.currentPlayerId}),
                   voterStatus |-> voterStatus(g, vs)]>>
           ELSE <<>>,
     allAuthorResults |-> allAuthorResults(g, vs)]

\* the handler finds the game and the player of the session
StatusBegin(p, caller) ==
    /\ \A q \in Procs : req[q].pc = "idle"
    /\ req' = [req EXCEPT ![p] =
           [IdleReq EXCEPT !.pc = "status", !.op = "status", !.g = game, !.voter = caller]]
    /\ UNCHANGED store

\* the handler returns StatusResponse(req[p].g, votes, req[p].voter)
StatusRespond(p) ==
    /\ req[p].pc = "status"
    /\ Respond(p)
    /\ UNCHANGED store


Init ==
    /\ otherGames = <<>>
    /\ game = NewGame
    /\ joined = {}
    /\ nickname = [p \in PlayerIds |-> <<>>]
    /\ ready = {}
    /\ guessed = {}
    /\ score = [p \in PlayerIds |-> 0]
    /\ trueOrder = [p \in PlayerIds |-> 0]
    /\ statementDocs = [p \in PlayerIds |-> <<>>]
    /\ votes = <<>>
    /\ req = [p \in Procs |-> IdleReq]

\* The endpoints of docs/ICEBREAKER.md: join, statements, start, vote, auto-advance.
\* A request that a handler refuses on the game as read returns without a write.
NextOther ==
    \/ \E nick \in PlayerIds : Join(nick)
    \/ \E player \in PlayerIds, truePos \in 1..MaxTruePos : SubmitStatements(player, truePos)
    \/ \E p \in Procs, adminToken \in AdminTokens : StartBegin(p, adminToken)
    \/ \E p \in Procs : StartFindPlayers(p)
    \/ \E p \in Procs : StartUpdate(p)
    \/ \E p \in Procs, voter \in PlayerIds, votedPlayerId \in AuthorGuesses :
           VoteBegin(p, voter, "author", votedPlayerId, NoStatement)
    \/ \E p \in Procs, voter \in PlayerIds, votedStatementId \in TruthGuesses :
           VoteBegin(p, voter, "truth", None, votedStatementId)
    \/ \E p \in Procs : VoteCheckExisting(p)
    \/ \E p \in Procs : VoteFindPlayers(p)
    \/ \E p \in Procs : VoteCount(p)
    \/ \E p \in Procs : VoteUpdate(p)
    \/ \E p \in Procs : CalcFindVotes(p)
    \/ \E p \in Procs : CalcReadCurrentPlayer(p)
    \/ \E p \in Procs : CalcReadVoter(p)
    \/ \E p \in Procs : CalcUpdateVoter(p)
    \/ \E p \in Procs : CalcAwardFooling(p)
    \/ \E p \in Procs : AutoAdvanceBegin(p)
    \/ \E p \in Procs : MarkGuessed(p)
    \/ \E p \in Procs : FindNext(p)
    \/ \E p \in Procs : AutoAdvanceUpdate(p)

Next ==
    \/ NextOther
    \/ \E p \in Procs : VoteCreate(p)

Spec == Init /\ [][Next]_vars

\* The same with the admin's next-phase endpoint, which closes a vote without its
\* quorum: the games with at most MaxAdminVotes votes.
NextAdmin ==
    \/ NextOther
    \/ \E p \in Procs : Len(votes) < MaxAdminVotes /\ VoteCreate(p)
    \/ \E p \in Procs, adminToken \in AdminTokens : NextPhaseBegin(p, adminToken)
    \/ \E p \in Procs : NextPhaseUpdate(p)

SpecAdmin == Init /\ [][NextAdmin]_vars

\* The game as it is played (docs/ICEBREAKER.md, "Game Flow"): a request that has
\* been received runs to its response, every player keeps asking to vote while a
\* vote is open, and a client's timer keeps asking for auto-advance.
Continue(p) ==
    \/ StartFindPlayers(p) \/ StartUpdate(p)
    \/ VoteCheckExisting(p) \/ VoteCreate(p) \/ VoteFindPlayers(p) \/ VoteCount(p)
    \/ VoteUpdate(p)
    \/ CalcFindVotes(p) \/ CalcReadCurrentPlayer(p) \/ CalcReadVoter(p)
    \/ CalcUpdateVoter(p) \/ CalcAwardFooling(p)
    \/ MarkGuessed(p) \/ FindNext(p) \/ AutoAdvanceUpdate(p)

VoterVotes(voter) ==
    \E p \in Procs :
        \/ \E votedPlayerId \in AuthorGuesses :
               VoteBegin(p, voter, "author", votedPlayerId, NoStatement)
        \/ \E votedStatementId \in TruthGuesses :
               VoteBegin(p, voter, "truth", None, votedStatementId)

TimerFires == \E p \in Procs : AutoAdvanceBegin(p)

SpecFair ==
    /\ Spec
    /\ \A p \in Procs : WF_vars(Continue(p))
    /\ \A voter \in PlayerIds : SF_vars(VoterVotes(voter))
    /\ SF_vars(TimerFires)

\* The status query on the documents the collections admit: a game of NumPlayers
\* players with statements, in any phase, with any order of play, and up to
\* MaxStatusVotes votes.
StatusOrders ==
    {<<>>} \cup {o \in [1..NumPlayers -> PlayerIds] : \A i, j \in 1..NumPlayers : o[i] = o[j] => i = j}

StatusGames ==
    {NewGame} \cup
    [status : {"voting-author", "results-author", "voting-truth", "results-truth", "finished"},
     currentRound : 1..NumPlayers, truthRound : 0..NumPlayers,
     currentPlayerId : PlayerIds, playerOrder : StatusOrders]

StatusVoteDocs ==
    [round : 1..NumPlayers, voter : PlayerIds, voteType : {"author"},
     votedPlayer : PlayerIds, votedStatement : {NoStatement}, isCorrect : BOOLEAN]
    \cup
    UNION {{[round |-> r, voter |-> v, voteType |-> "truth", votedPlayer |-> None,
             votedStatement |-> <<pl, o>>, isCorrect |-> (o = 1)] :
               r \in 0..NumPlayers, pl \in PlayerIds \ {v}, o \in 1..MaxVoteOrder} :
           v \in PlayerIds}

StatusVotes == UNION {[1..n -> StatusVoteDocs] : n \in 0..MaxStatusVotes}

InitStatus ==
    /\ otherGames = <<>>
    /\ game \in StatusGames
    /\ joined = PlayerIds
    /\ nickname = [p \in PlayerIds |-> Name(p)]
    /\ ready = PlayerIds
    /\ guessed = {}
    /\ score = [p \in PlayerIds |-> 0]
    /\ trueOrder = [p \in PlayerIds |-> 1]
    /\ statementDocs = [p \in PlayerIds |-> StatementsOf(p, 1)]
    /\ votes \in (IF game.status = "lobby" THEN {<<>>} ELSE StatusVotes)
    /\ req = [p \in Procs |-> IdleReq]

NextStatus ==
    \/ \E p \in Procs, caller \in PlayerIds \cup {None} : StatusBegin(p, caller)
    \/ \E p \in Procs : StatusRespond(p)

SpecStatus == InitStatus /\ [][NextStatus]_vars

\* The lobby with the statements handler step by step: what a player may post.
Texts ==
    {<<"a", "b", "c">>, <<" ", "a", "b", "c", " ">>, <<" ", "a", "b", " ">>, <<"a", "b">>, <<>>}

\* one true statement at order 1..MaxTruePos, none, or the first two or three
TruthPatterns ==
    {[o \in 1..3 |-> o = t] : t \in 0..MaxTruePos} \cup {[o \in 1..3 |-> o <= k] : k \in 2..3}

Bodies ==
    {[o \in 1..3 |-> [text |-> <<"a", "b", "c">>, isTrue |-> pattern[o]]] :
         pattern \in TruthPatterns}
    \cup {[o \in 1..3 |-> [text |-> IF o = 1 THEN text ELSE <<"a", "b", "c">>,
                            isTrue |-> (o = 1)]] : text \in Texts}
    \cup {[o \in 1..n |-> [text |-> <<"a", "b", "c">>, isTrue |-> (o = 1)]] : n \in {2, 4}}

\* the nicknames asked for: one of a single character, MaxNames longer ones
Nicknames == {Name(n) : n \in 0..MaxNames}

NextLobby ==
    \/ \E p \in Procs, nick \in Nicknames : JoinBegin(p, nick)
    \/ \E p \in Procs : JoinCheckExisting(p)
    \/ \E p \in Procs : JoinCreate(p)
    \/ \E p \in Procs, player \in PlayerIds, statements \in Bodies :
           StatementsBegin(p, player, statements)
    \/ \E p \in Procs : StatementsFindGame(p)
    \/ \E p \in Procs : StatementsCreate(p)
    \/ \E p \in Procs : StatementsMark(p)
    \/ \E p \in Procs, adminToken \in AdminTokens : StartBegin(p, adminToken)
    \/ \E p \in Procs : StartFindPlayers(p)
    \/ \E p \in Procs : StartUpdate(p)

SpecLobby == Init /\ [][NextLobby]_vars

\* The create handler on a store that holds the game played and, of the other
\* codes, any that earlier requests have taken.
NextCreate ==
    \/ \E p \in Procs, code \in Codes : CreateBegin(p, code)
    \/ \E p \in Procs, code \in Codes : CreateFind(p, code)
    \/ \E p \in Procs : CreateInsert(p)

SpecCreate == Init /\ [][NextCreate]_vars

\* The vote of a game with NumVoters players, two of them voters in every round,
\* from the state the start handler leaves, the first player on stage in round 1,
\* to the results of the truth vote on that player.
NumVoters == 3
VoterIds == 1..NumVoters

InitVote ==
    /\ otherGames = <<>>
    /\ game = [NewGame EXCEPT !.status = "voting-author", !.currentRound = 1,
                              !.currentPlayerId = Min(VoterIds)]
    /\ joined = VoterIds
    /\ nickname = [p \in VoterIds |-> Name(p)]
    /\ ready = VoterIds
    /\ guessed = {}
    /\ score = [p \in VoterIds |-> 0]
    /\ trueOrder = [p \in VoterIds |-> 1]
    /\ statementDocs = [p \in VoterIds |-> StatementsOf(p, 1)]
    /\ votes = <<>>
    /\ req = [p \in Procs |-> IdleReq]

NextVote ==
    \/ \E p \in Procs, voter \in VoterIds, votedPlayerId \in AuthorGuesses :
           VoteBegin(p, voter, "author", votedPlayerId, NoStatement)
    \/ \E p \in Procs, voter \in VoterIds, votedStatementId \in TruthGuesses :
           VoteBegin(p, voter, "truth", None, votedStatementId)
    \/ \E p \in Procs : VoteCheckExisting(p)
    \/ \E p \in Procs : VoteCreate(p)
    \/ \E p \in Procs : VoteFindPlayers(p)
    \/ \E p \in Procs : VoteCount(p)
    \/ \E p \in Procs : VoteUpdate(p)
    \/ \E p \in Procs : CalcFindVotes(p)
    \/ \E p \in Procs : CalcReadCurrentPlayer(p)
    \/ \E p \in Procs : CalcReadVoter(p)
    \/ \E p \in Procs : CalcUpdateVoter(p)
    \/ \E p \in Procs : CalcAwardFooling(p)
    \/ \E p \in Procs : game.status = "results-author" /\ AutoAdvanceBegin(p)
    \/ \E p \in Procs : AutoAdvanceUpdate(p)

SpecVote == InitVote /\ [][NextVote]_vars

\* The votes of that game with the admin's next-phase requests beside them, up to
\* the results of the truth vote: the games with at most MaxRaceVotes votes.
MaxRaceVotes == 2

NextRace ==
    \/ \E p \in Procs, voter \in VoterIds, votedPlayerId \in AuthorGuesses :
           VoteBegin(p, voter, "author", votedPlayerId, NoStatement)
    \/ \E p \in Procs, voter \in VoterIds, votedStatementId \in TruthGuesses :
           VoteBegin(p, voter, "truth", None, votedStatementId)
    \/ \E p \in Procs : VoteCheckExisting(p)
    \/ \E p \in Procs : Len(votes) < MaxRaceVotes /\ VoteCreate(p)
    \/ \E p \in Procs : VoteFindPlayers(p)
    \/ \E p \in Procs : VoteCount(p)
    \/ \E p \in Procs : VoteUpdate(p)
    \/ \E p \in Procs : CalcFindVotes(p)
    \/ \E p \in Procs : CalcReadCurrentPlayer(p)
    \/ \E p \in Procs : CalcReadVoter(p)
    \/ \E p \in Procs : CalcUpdateVoter(p)
    \/ \E p \in Procs : CalcAwardFooling(p)
    \/ \E p \in Procs : game.status # "results-truth" /\ NextPhaseBegin(p, TheAdminToken)
    \/ \E p \in Procs : NextPhaseUpdate(p)

SpecRace == InitVote /\ [][NextRace]_vars

\* The same game with its requests one after the other: a request is received
\* only when no handler is running.
NextSeq ==
    /\ Next
    /\ Cardinality({p \in Procs : req'[p].pc # "idle"}) <= 1

SpecSeq == Init /\ [][NextSeq]_vars

\* ------------------------------------------------------------ properties
\* the request whose handler takes this step
Steps(p) == req'[p] # req[p]

\* the points the votes on record are worth to a player: one per correct vote of
\* the player, one per wrong truth vote on one of the player's statements
RECURSIVE Entitled(_, _)
Entitled(vs, player) ==
    IF vs = <<>> THEN 0
    ELSE LET v == Head(vs)
             own == IF v.voter = player /\ v.isCorrect THEN 1 ELSE 0
             fooled == IF v.voteType = "truth" /\ ~v.isCorrect /\ v.votedStatement[1] = player
                         THEN 1 ELSE 0
         IN own + fooled + Entitled(Tail(vs), player)

\* C1: whatever the interleaving of the vote requests that see the quorum of a
\* round complete, the points of the round are awarded once: no player's score
\* exceeds what the votes on record are worth.
C1_PointsAwardedOnce == \A player \in PlayerIds : score[player] <= Entitled(votes, player)

\* the edges of the phase sequence
ForwardEdges ==
    {<<"lobby", "voting-author">>, <<"voting-author", "results-author">>,
     <<"results-author", "voting-truth">>, <<"voting-truth", "results-truth">>,
     <<"results-truth", "voting-truth">>, <<"results-truth", "finished">>}

\* C2: every change of the game's status follows an edge of lobby -> voting-author
\* -> results-author -> voting-truth -> results-truth -> (voting-truth | finished).
C2_StatusMovesForward ==
    [][game'.status # game.status => <<game.status, game'.status>> \in ForwardEdges]_vars

\* the rounds that hold a vote
Rounds == {votes[i].round : i \in 1..Len(votes)}

\* C3: once the game has started, no round holds more votes of a kind than there
\* are other players in the order of play (playerOrder is to hold the players with
\* statements, C8), and a vote is only recorded while its round is open.
C3_VotesWithinQuorum ==
    [][/\ game'.status # "lobby" =>
            \A round \in Rounds', voteType \in VoteTypes :
                Len(VotesOf(votes', round, voteType)) <= Cardinality(ready') - 1
       /\ Len(votes') > Len(votes) =>
            LET v == votes'[Len(votes')] IN
            /\ game.status = (IF v.voteType = "author" THEN "voting-author" ELSE "voting-truth")
            /\ v.round = roundToCheck(game, v.voteType)
            /\ Len(VotesOf(votes, v.round, v.voteType)) < Cardinality(ready) - 1]_vars

\* C4: no step lowers the score of a player.
C4_ScoresNeverDecrease == [][\A player \in PlayerIds : score'[player] >= score[player]]_vars

\* C5: no two vote documents have the same round, voter and vote type.
C5_OneVotePerKey ==
    \A i, j \in 1..Len(votes) :
        (/\ votes[i].round = votes[j].round
         /\ votes[i].voter = votes[j].voter
         /\ votes[i].voteType = votes[j].voteType) => i = j

\* C6: once the status is finished no step changes the status, currentRound,
\* truthRound, the votes or a score.
C6_FinishedIsTerminal ==
    [][game.status = "finished" =>
           /\ game'.status = game.status
           /\ game'.currentRound = game.currentRound
           /\ game'.truthRound = game.truthRound
           /\ votes' = votes
           /\ score' = score]_vars

\* C7: the update of an auto-advance that comes after the game has moved on from
\* the game the request read changes nothing: one transition for each results
\* phase, however many auto-advance calls there are.
C7_LateAutoAdvanceIsNoOp ==
    [][\A p \in Procs :
           (Steps(p) /\ req[p].pc = "advance_update" /\ game # req[p].g) => game' = game]_vars

\* C8: the update of a start leaves the game in voting-author and round 1, with
\* playerOrder an ordering of exactly the players with statements and its first
\* player on stage.
C8_StartSetsPlayerOrder ==
    [][\A p \in Procs :
           (Steps(p) /\ req[p].pc = "start_update") =>
               /\ game'.status = "voting-author"
               /\ game'.currentRound = 1
               /\ Len(game'.playerOrder) = Cardinality(ready)
               /\ {game'.playerOrder[i] : i \in 1..Len(game'.playerOrder)} = ready
               /\ game'.currentPlayerId = game'.playerOrder[1]]_vars

\* C9: a start request that finds the game out of the lobby, or fewer than two
\* players with statements, returns with the game, the players and the votes as
\* they were; a start request writes only when the game it read was in the lobby
\* and at least two players have statements, and then it starts the game.
C9_StartRejectsOrStarts ==
    [][\A p \in Procs, adminToken \in AdminTokens :
           /\ (game.status # "lobby" /\ StartBegin(p, adminToken)) => UNCHANGED vars
           /\ (Cardinality(ready) < 2 /\ StartFindPlayers(p)) =>
                  (req'[p] = IdleReq /\ UNCHANGED store)
           /\ (Steps(p) /\ (req[p].op = "start" \/ req'[p].op = "start")
                        /\ req[p].pc # "start_update") => UNCHANGED store
           /\ (Steps(p) /\ req[p].pc = "start_update") =>
                  /\ req[p].g.status = "lobby"
                  /\ Cardinality(ready) >= 2
                  /\ game'.status = "voting-author"]_vars

\* a start request is refused for want of a second player with statements while
\* the game is in the lobby
C9_StartRefused ==
    \E p \in Procs :
        req[p].pc = "start_players" /\ Cardinality(ready) < 2 /\ game.status = "lobby"

\* C10: the update of the author vote that completes the quorum either moves to
\* the next player of playerOrder (currentRound < len(playerOrder)) and stays in
\* voting-author, or (currentRound = len(playerOrder)) moves to results-author
\* with currentRound and currentPlayerId as they were.
C10_AuthorQuorumAdvances ==
    [][\A p \in Procs :
           (Steps(p) /\ req[p].pc = "vote_update" /\ req[p].voteType = "author") =>
               \/ /\ game.currentRound < Len(game.playerOrder)
                  /\ game'.currentRound = game.currentRound + 1
                  /\ game'.currentPlayerId = game.playerOrder[game'.currentRound]
                  /\ game'.status = "voting-author"
               \/ /\ game.currentRound = Len(game.playerOrder)
                  /\ game'.status = "results-author"
                  /\ game'.currentRound = game.currentRound
                  /\ game'.currentPlayerId = game.currentPlayerId]_vars

\* C11: the update of an auto-advance that read results-author leaves the game in
\* voting-truth with truthRound 1 and the first player of playerOrder on stage.
C11_FirstTruthRound ==
    [][\A p \in Procs :
           (Steps(p) /\ req[p].pc = "advance_update" /\ req[p].g.status = "results-author") =>
               /\ game'.status = "voting-truth"
               /\ game'.truthRound = 1
               /\ Len(game'.playerOrder) >= 1
               /\ game'.currentPlayerId = game'.playerOrder[1]]_vars

\* C12: the update of an auto-advance that read results-truth either goes back to
\* voting-truth with truthRound one higher and the next player of playerOrder on
\* stage (truthRound < len(playerOrder)), or goes to finished with the round
\* pointers as they were (truthRound = len(playerOrder)); never to voting-author.
C12_NextTruthRoundOrFinished ==
    [][\A p \in Procs :
           (Steps(p) /\ req[p].pc = "advance_update" /\ req[p].g.status = "results-truth") =>
               /\ game'.status # "voting-author"
               /\ \/ /\ game.truthRound < Len(game.playerOrder)
                     /\ game'.status = "voting-truth"
                     /\ game'.truthRound = game.truthRound + 1
                     /\ game'.currentPlayerId = game.playerOrder[game'.truthRound]
                  \/ /\ game.truthRound = Len(game.playerOrder)
                     /\ game'.status = "finished"
                     /\ game'.truthRound = game.truthRound
                     /\ game'.currentRound = game.currentRound
                     /\ game'.currentPlayerId = game.currentPlayerId]_vars

FooledVoters(player) ==
    {votes[i].voter : i \in {j \in 1..Len(votes) :
        /\ votes[j].voteType = "truth"
        /\ ~votes[j].isCorrect
        /\ votes[j].votedStatement[1] = player}}

\* C14: the scoring of a truth round adds exactly 1 to the score of a voter for a
\* correct truth vote of that round (a vote on a statement of the on-stage
\* player), adds to the on-stage player's score exactly the number of voters
\* whose truth vote of that round is wrong, and changes no other score.
C14_TruthPoints ==
    [][\A p \in Procs :
           /\ (Steps(p) /\ req[p].pc = "calc_write" /\ req[p].calc = "truth") =>
                  LET vote == Head(req[p].todo) IN
                  /\ vote.isCorrect
                  /\ vote.votedStatement[1] = req[p].g.currentPlayerId
                  /\ score' = [score EXCEPT ![vote.voter] = score[vote.voter] + 1]
           /\ (Steps(p) /\ req[p].pc = "calc_fooling") =>
                  LET onStage == req[p].g.currentPlayerId IN
                  score' = [score EXCEPT ![onStage] = score[onStage] + Cardinality(FooledVoters(onStage))]]_vars

\* the author rounds in which a player's author vote is correct
AuthorRoundsWon(player) ==
    {votes[i].round : i \in {j \in 1..Len(votes) :
        /\ votes[j].voteType = "author"
        /\ votes[j].voter = player
        /\ votes[j].isCorrect}}

\* C15: when the author phase has closed (results-author, no request in flight, no
\* truth vote cast yet) every player's score is the number of author rounds in
\* which the player's author vote was correct.
C15_AuthorPoints ==
    (/\ game.status = "results-author"
     /\ \A p \in Procs : req[p].pc = "idle"
     /\ \A i \in 1..Len(votes) : votes[i].voteType = "author")
    => \A player \in PlayerIds : score[player] = Cardinality(AuthorRoundsWon(player))

\* C16: the points of a round and the change of the status are one step: a step
\* that changes a score takes the game from the voting phase to its results
\* phase, so that no state has points of a round added while its vote is open,
\* or a results status with points still to come.
C16_ScoringIsAtomic ==
    [][score' # score =>
           \/ game.status = "voting-author" /\ game'.status = "results-author"
           \/ game.status = "voting-truth" /\ game'.status = "results-truth"]_vars

\* C17: a vote request of the player on stage returns with nothing changed, and
\* the voter of every vote that is created is not the on-stage player of the game
\* the vote's round was read from.
C17_OnStagePlayerCannotVote ==
    [][\A p \in Procs :
           /\ \A votedPlayerId \in AuthorGuesses :
                  VoteBegin(p, game.currentPlayerId, "author", votedPlayerId, NoStatement)
                      => UNCHANGED vars
           /\ \A votedStatementId \in TruthGuesses :
                  VoteBegin(p, game.currentPlayerId, "truth", None, votedStatementId)
                      => UNCHANGED vars
           /\ (Steps(p) /\ req[p].pc = "vote_create") =>
                  /\ Len(votes') = Len(votes) + 1
                  /\ votes'[Len(votes')].voter = req[p].voter
                  /\ votes'[Len(votes')].voter # req[p].g.currentPlayerId
                  /\ votes'[Len(votes')].round = roundToCheck(req[p].g, req[p].voteType)
           /\ Len(votes') = Len(votes) => votes' = votes]_vars

\* a voting phase with votes on record in which the player on stage asks to vote
C17_OnStagePlayerAsks ==
    /\ game.status \in {"voting-author", "voting-truth"}
    /\ game.currentPlayerId \in joined
    /\ votes # <<>>
    /\ \E p \in Procs : req[p].pc = "idle"
    /\ VoteCheck(game, game.currentPlayerId,
                 IF game.status = "voting-author" THEN "author" ELSE "truth") = "400"

\* C18: an author vote asked for outside voting-author, or a truth vote outside
\* voting-truth, returns with nothing changed; a vote is only created by a request
\* that read the game in the phase of its vote type.
C18_VoteOnlyInItsPhase ==
    [][/\ votes' # votes =>
            \E q \in Procs :
                /\ Steps(q) /\ req[q].op = "vote"
                /\ req[q].g.status = (IF req[q].voteType = "author" THEN "voting-author"
                                      ELSE "voting-truth")
       /\ \A p \in Procs, voter \in PlayerIds :
              /\ \A votedPlayerId \in AuthorGuesses :
                     (game.status # "voting-author"
                      /\ VoteBegin(p, voter, "author", votedPlayerId, NoStatement))
                         => UNCHANGED vars
              /\ \A votedStatementId \in TruthGuesses :
                     (game.status # "voting-truth"
                      /\ VoteBegin(p, voter, "truth", None, votedStatementId))
                         => UNCHANGED vars
              /\ (Steps(p) /\ req'[p].op = "vote") =>
                     req'[p].g.status = (IF req'[p].voteType = "author" THEN "voting-author"
                                         ELSE "voting-truth")]_vars

\* a results phase with votes on record in which a player who is not on stage
\* asks to vote
C18_VoteOutOfPhase ==
    /\ game.status \in {"results-author", "results-truth"}
    /\ votes # <<>>
    /\ \E p \in Procs : req[p].pc = "idle"
    /\ \E voter \in joined \ {game.currentPlayerId} :
           /\ VoteCheck(game, voter, "author") = "400"
           /\ VoteCheck(game, voter, "truth") = "400"

\* C19: an auto-advance asked for outside results-author and results-truth returns
\* with nothing changed; the steps of an auto-advance belong to a request that
\* read the game in a results phase.
C19_AutoAdvanceOnlyFromResults ==
    [][\A p \in Procs :
           /\ (game.status \notin {"results-author", "results-truth"} /\ AutoAdvanceBegin(p))
                  => UNCHANGED vars
           /\ (Steps(p) /\ (req[p].op = "auto-advance" \/ req'[p].op = "auto-advance")) =>
                  /\ req[p].op = "auto-advance" =>
                         req[p].g.status \in {"results-author", "results-truth"}
                  /\ req'[p].op = "auto-advance" =>
                         req'[p].g.status \in {"results-author", "results-truth"}]_vars

\* the game is over and a client's timer asks for an auto-advance
C19_AutoAdvanceAfterTheEnd ==
    /\ game.status = "finished"
    /\ AutoAdvanceCheck(game) = "400"
    /\ \E p \in Procs : req[p].pc = "idle"

\* C20: a start or a next-phase asked for with a token that is not the game's
\* admin token returns with nothing changed, whatever the status of the game.
C20_WrongTokenChangesNothing ==
    [][\A p \in Procs, adminToken \in AdminTokens \ {TheAdminToken} :
           /\ StartBegin(p, adminToken) => UNCHANGED vars
           /\ NextPhaseBegin(p, adminToken) => UNCHANGED vars
           /\ StartCheck(game, adminToken) = "403"
           /\ NextPhaseCheck(game, adminToken) = "403"]_vars

\* a game under way, with a vote on record, and a request with a wrong token
C20_WrongTokenMidGame ==
    /\ game.status \in {"voting-author", "results-author", "voting-truth", "results-truth"}
    /\ votes # <<>>
    /\ \E p \in Procs : req[p].pc = "idle"
    /\ \E adminToken \in AdminTokens :
           adminToken # TheAdminToken /\ NextPhaseCheck(game, adminToken) = "403"

\* C21: once the game has left the lobby, no step of any handler (vote,
\* auto-advance, next-phase, join, statements, start) changes playerOrder.
C21_PlayerOrderIsFrozen ==
    [][game.status # "lobby" => game'.playerOrder = game.playerOrder]_vars

\* a game past the lobby that a vote's update has just moved to its results
C21_GameMovedOn ==
    /\ game.status \in {"results-author", "results-truth"}
    /\ votes # <<>>
    /\ \A p \in Procs : req[p].pc = "idle"

\* C22: currentRound and truthRound are each within 0..len(playerOrder).
C22_RoundsWithinPlayerOrder ==
    /\ game.currentRound \in 0..Len(game.playerOrder)
    /\ game.truthRound \in 0..Len(game.playerOrder)

\* C23: in voting-author the player on stage is playerOrder[currentRound - 1]
\* (0-indexed), in voting-truth and results-truth playerOrder[truthRound - 1].
C23_OnStagePlayerFollowsOrder ==
    /\ game.status = "voting-author" =>
           /\ game.currentRound \in 1..Len(game.playerOrder)
           /\ game.currentPlayerId = game.playerOrder[game.currentRound]
    /\ game.status \in {"voting-truth", "results-truth"} =>
           /\ game.truthRound \in 1..Len(game.playerOrder)
           /\ game.currentPlayerId = game.playerOrder[game.truthRound]

\* C24: when every request runs to its response, every player keeps asking to
\* vote while a vote is open and auto-advance keeps being asked for in the results
\* phases, a started game reaches finished (or, in this model, the store is full
\* of votes).
C24_StartedGameFinishes ==
    (game.status # "lobby") ~> (game.status = "finished" \/ Len(votes) = MaxVotes)

\* C25: in a finished game the votes on record tell the order of the rounds: all
\* author votes were cast before the first truth vote (the author rounds precede
\* the one results-author phase), the truth votes of one round are on one
\* player's statements and no two rounds are on the same player's (one truth round
\* per player), and the player of truth round k is playerOrder[k - 1].
C25_RoundsInOrder ==
    game.status = "finished" =>
        /\ \A i, j \in 1..Len(votes) :
               (i < j /\ votes[i].voteType = "truth") => votes[j].voteType = "truth"
        /\ \A i, j \in 1..Len(votes) :
               (votes[i].voteType = "truth" /\ votes[j].voteType = "truth") =>
                   (votes[i].round = votes[j].round
                        <=> votes[i].votedStatement[1] = votes[j].votedStatement[1])
        /\ \A i \in 1..Len(votes) :
               votes[i].voteType = "truth" =>
                   /\ votes[i].round \in 1..Len(game.playerOrder)
                   /\ votes[i].votedStatement[1] = game.playerOrder[votes[i].round]

\* every isTrue value the response of the status query carries
ShownTruths(response) ==
    IF response.currentRound = <<>> THEN {}
    ELSE {response.currentRound[1].statements[o].isTrue :
              o \in 1..Len(response.currentRound[1].statements)}

SameButVoters(g, vs, ws) ==
    /\ Len(vs) = Len(ws)
    /\ \A i \in 1..Len(vs) :
           IF vs[i].voteType = "author" /\ vs[i].round = g.currentRound
             THEN ws[i] = [vs[i] EXCEPT !.voter = ws[i].voter]
             ELSE ws[i] = vs[i]

\* C27: the response of the status query has the roster voterStatus exactly when
\* the status is voting-truth; in voting-author the response to a caller without
\* a session is the same for any two games that differ only in who has cast the
\* author votes of the current round: it tells how many votes, never whose.
C27_RosterOnlyInTruthVote ==
    \A p \in Procs :
        req[p].pc = "status" =>
            LET g == req[p].g
                response == StatusResponse(g, votes, req[p].voter)
            IN
            /\ response.currentRound # <<>> =>
                   (response.currentRound[1].voterStatus # <<>> <=> g.status = "voting-truth")
            /\ (g.status = "voting-author" /\ req[p].voter = None) =>
                   /\ response.currentRound[1].votesReceived
                          = Len(VotesOf(votes, g.currentRound, "author"))
                   /\ \A ws \in StatusVotes :
                          SameButVoters(g, votes, ws) =>
                              StatusResponse(g, ws, None) = response

\* a status query without a session during an author vote, with a vote of the
\* round on record that another player could have cast
C27_SomeoneHasVoted ==
    \E p \in Procs :
        /\ req[p].pc = "status"
        /\ req[p].g.status = "voting-author"
        /\ req[p].voter = None
        /\ Len(VotesOf(votes, req[p].g.currentRound, "author")) >= 1
        /\ \E ws \in StatusVotes : ws # votes /\ SameButVoters(req[p].g, votes, ws)

\* the positions in the votes collection of the author votes of a round
AuthorVotesAt(round) ==
    {i \in 1..Len(votes) : votes[i].voteType = "author" /\ votes[i].round = round}

\* C28: in results-author the response of the status query has one entry per
\* round 1..len(playerOrder), in round order; the entry of a round names
\* playerOrder[round - 1] as its player and lists each author vote of the round,
\* in the order of the collection, with its voter and its correctness.  In no
\* other status is there a breakdown.
C28_AllAuthorRoundsShown ==
    \A p \in Procs :
        req[p].pc = "status" =>
            LET g == req[p].g
                response == StatusResponse(g, votes, req[p].voter)
            IN
            IF g.status # "results-author" THEN response.allAuthorResults = <<>>
            ELSE /\ Len(response.allAuthorResults) = 1
                 /\ Len(response.allAuthorResults[1]) = Len(g.playerOrder)
                 /\ \A round \in 1..Len(g.playerOrder) :
                        LET entry == response.allAuthorResults[1][round] IN
                        /\ entry.round = round
                        /\ entry.playerId = g.playerOrder[round]
                        /\ Len(entry.votes) = Cardinality(AuthorVotesAt(round))
                        /\ \A i \in AuthorVotesAt(round) :
                               LET k == Cardinality({j \in AuthorVotesAt(round) : j <= i}) IN
                               /\ entry.votes[k].voter = votes[i].voter
                               /\ entry.votes[k].isCorrect = votes[i].isCorrect

\* a status query in results-author of a game with every player in the order
\* of play and author votes of two rounds on record
C28_TwoRoundsToShow ==
    \E p \in Procs :
        /\ req[p].pc = "status"
        /\ req[p].g.status = "results-author"
        /\ Len(req[p].g.playerOrder) = NumPlayers
        /\ AuthorVotesAt(1) # {}
        /\ AuthorVotesAt(2) # {}

\* three statements, exactly one of them true, each of three characters or more
\* without its leading and trailing blanks
WellFormed(statements) ==
    /\ Len(statements) = 3
    /\ \E k \in 1..3 :
           statements[k].isTrue /\ \A j \in 1..3 : j # k => ~statements[j].isTrue
    /\ \A k \in 1..3 : Len(trim(statements[k].text)) >= 3

\* C29: a submission of statements goes through only if it is well formed, its
\* player has not submitted yet and the game is in the lobby when the handler
\* reads it; a submission refused by any of these checks returns without a
\* Statement document created and with hasSubmittedStatements as it was, and
\* every document and every hasSubmittedStatements written is the work of a
\* request that passed them all.
C29_SubmissionChecked ==
    [][\A p \in Procs :
           /\ \A player \in joined, statements \in Bodies :
                  (StatementsBegin(p, player, statements)
                   /\ (~WellFormed(statements) \/ player \in ready))
                      => UNCHANGED vars
           /\ (StatementsFindGame(p) /\ game.status # "lobby")
                  => (req'[p] = IdleReq /\ UNCHANGED store)
           /\ (Steps(p) /\ req'[p].op = "statements") =>
                  /\ WellFormed(req'[p].statements)
                  /\ req[p].pc = "idle" => req'[p].player \notin ready
                  /\ req'[p].pc # "statements_game" => req'[p].g.status = "lobby"
           /\ (statementDocs' # statementDocs \/ ready' # ready) =>
                  \E q \in Procs :
                      /\ Steps(q) /\ req[q].op = "statements"
                      /\ WellFormed(req[q].statements)
                      /\ req[q].g.status = "lobby"]_vars

\* a player who has submitted, with the three documents on record, may post again
\* while another player's submission is under way
C29_SecondSubmission ==
    /\ game.status = "lobby"
    /\ \E player \in ready :
           /\ Len(statementDocs[player]) = 3
           /\ \E statements \in Bodies :
                  WellFormed(statements) /\ StatementsCheck(statements, player \in ready) = "400"
    /\ \E p \in Procs : req[p].pc = "idle"
    /\ \E p \in Procs : req[p].pc = "statements_game"

\* C30: a player with hasSubmittedStatements has exactly three Statement
\* documents, of orders 1, 2 and 3, exactly one of them with isTrue, whatever
\* the interleaving of submissions and start.
C30_ThreeStatementsOneTrue ==
    \A player \in ready :
        LET docs == statementDocs[player] IN
        /\ Len(docs) = 3
        /\ \A o \in 1..3 : \E k \in 1..Len(docs) : docs[k].order = o
        /\ Cardinality({k \in 1..Len(docs) : docs[k].isTrue}) = 1

\* C31: a player is created only while the game is in the lobby, and at no time
\* do two players of the game have the same nickname, whatever the interleaving
\* of the joins with each other and with start.
C31_JoinInLobbyWithFreshNickname ==
    [][joined' # joined =>
           /\ game.status = "lobby"
           /\ \A a, b \in joined' : nickname'[a] = nickname'[b] => a = b]_vars

\* the step adds one Game document to the store: a game in the lobby, with
\* currentRound 0, nobody on stage and a code that no game of the store has
CreatesFreshGame ==
    /\ Len(otherGames') = Len(otherGames) + 1
    /\ SubSeq(otherGames', 1, Len(otherGames)) = otherGames
    /\ LET created == otherGames'[Len(otherGames')] IN
       /\ created.status = "lobby"
       /\ created.currentRound = 0
       /\ created.currentPlayerId = None
       /\ created.code \notin ExistingCodes

\* the request of slot p ends with this step
Returns(p) == req[p].op = "create" /\ req[p].pc # "idle" /\ req'[p].pc = "idle"

\* C32: a create request ends either with a fresh game in the lobby or, no game
\* created, with its MaxAttempts codes all found taken.
C32_FreshGameOrRetriesSpent ==
    [][\A p \in Procs :
           /\ (Steps(p) /\ ~Returns(p)) => otherGames' = otherGames
           /\ (Steps(p) /\ Returns(p)) =>
                  \/ CreatesFreshGame
                  \/ /\ otherGames' = otherGames
                     /\ req[p].pc = "create_find"
                     /\ req[p].attempts + 1 = MaxAttempts]_vars

\* C33: in a started game the number of votes that closes a round is
\* len(playerOrder) - 1: the eligibleVoters a vote request counts, and the
\* votesNeeded the status query reports.
C33_QuorumIsOrderMinusOne ==
    /\ \A p \in Procs :
           req[p].pc = "vote_count" => req[p].eligibleVoters = Len(req[p].g.playerOrder) - 1
    /\ game.status # "lobby" =>
           LET response == StatusResponse(game, votes, None) IN
           response.currentRound # <<>> =>
               response.currentRound[1].votesNeeded = Len(game.playerOrder) - 1

\* C34: every author vote on record is correct exactly if it names the player
\* of its round in the order of play, playerOrder[round - 1].
C34_AuthorVoteCorrectness ==
    \A i \in 1..Len(votes) :
        votes[i].voteType = "author" =>
            /\ votes[i].round \in 1..Len(game.playerOrder)
            /\ votes[i].isCorrect = (votes[i].votedPlayer = game.playerOrder[votes[i].round])

\* C35: a truth vote is only created for a statement of the player who is on
\* stage in the game as the request read it, so that no truth vote on record is
\* correct by the true statement of another player.
C35_TruthVoteOnStatementOnStage ==
    [][\A p \in Procs :
           (Steps(p) /\ req[p].pc = "vote_create" /\ req[p].voteType = "truth") =>
               votes'[Len(votes')].votedStatement[1] = req[p].g.currentPlayerId]_vars

\* C36: no step that finds and leaves the status voting-author changes a score,
\* and the update of an author vote of a round before the last one (fewer rounds
\* played than there are players with statements) changes currentRound and
\* currentPlayerId of the game and nothing else.
C36_NoPointsWhileVotingAuthor ==
    [][/\ (game.status = "voting-author" /\ game'.status = "voting-author") => score' = score
       /\ \A p \in Procs :
              (/\ Steps(p) /\ req[p].pc = "vote_update" /\ req[p].voteType = "author"
               /\ req[p].g.currentRound < Cardinality(ready)) =>
                  /\ game'.status = "voting-author"
                  /\ game'.currentRound = req[p].g.currentRound + 1
                  /\ game'.currentPlayerId # req[p].g.currentPlayerId
                  /\ score' = score]_vars

\* the votes of the round of the request in slot p do not reach its quorum
BelowQuorum(p) ==
    Len(VotesOf(votes, roundToCheck(req[p].g, req[p].voteType), req[p].voteType))
        < req[p].eligibleVoters

\* C37: a vote request changes nothing but the votes up to its count, and adds
\* exactly one vote, the one it was sent with; when the count is below the quorum
\* the request returns there, before the update of the game after which
\* autoAdvanced is set, with game, scores and votes as they are.
C37_VoteBelowQuorumOnlyAddsVote ==
    [][\A p \in Procs :
           (Steps(p) /\ req[p].pc \in {"vote_existing", "vote_create", "vote_players", "vote_count"}) =>
               /\ game' = game
               /\ score' = score
               /\ guessed' = guessed
               /\ IF req[p].pc = "vote_create"
                    THEN /\ Len(votes') = Len(votes) + 1
                         /\ SubSeq(votes', 1, Len(votes)) = votes
                         /\ votes'[Len(votes')].voter = req[p].voter
                         /\ votes'[Len(votes')].voteType = req[p].voteType
                    ELSE votes' = votes
               /\ (req[p].pc = "vote_count" /\ BelowQuorum(p)) => req'[p] = IdleReq]_vars

\* a vote has been created and counted, and its round is short of the quorum
C37_VoteShortOfQuorum ==
    \E p \in Procs :
        /\ req[p].pc = "vote_count"
        /\ BelowQuorum(p)
        /\ \E i \in 1..Len(votes) : votes[i].voter = req[p].voter

\* C38: in a finished game with no request running, every player's score is the
\* number of the player's correct votes, author and truth, plus the number of
\* wrong truth votes on the player's statements.
C38_FinalScores ==
    (game.status = "finished" /\ \A p \in Procs : req[p].pc = "idle")
        => \A player \in PlayerIds : score[player] = Entitled(votes, player)

\* the status that follows a status of a round
PhaseAfter(status) ==
    CASE status = "voting-author" -> "results-author"
      [] status = "results-author" -> "voting-truth"
      [] status = "voting-truth" -> "results-truth"
      [] OTHER -> status

\* C39: a next-phase request with the admin token, on the game as it read it:
\* from lobby or finished it returns with nothing changed; from voting-author,
\* results-author and voting-truth its update writes the next status with the
\* round and the on-stage player as read; from results-truth it has marked the
\* on-stage player as guessed, has looked for a player with statements not yet
\* guessed, and its update writes voting-author with currentRound + 1 and that
\* player on stage, or finished when there is none.
C39_NextPhaseOneStep ==
    [][\A p \in Procs :
           LET g == req[p].g
               mine == Steps(p) /\ req[p].op = "next-phase"
           IN
           /\ (game.status \in {"lobby", "finished"} /\ NextPhaseBegin(p, TheAdminToken))
                  => UNCHANGED vars
           /\ (mine /\ req[p].pc = "mark_guessed") =>
                  /\ guessed' = guessed \cup {g.currentPlayerId}
                  /\ game' = game
           /\ (mine /\ req[p].pc = "find_next") =>
                  /\ g.currentPlayerId \in guessed
                  /\ IF ready \ guessed = {} THEN req'[p].nextPlayer = None
                       ELSE req'[p].nextPlayer \in ready \ guessed
                  /\ game' = game
           /\ (mine /\ req[p].pc = "next_update") =>
                  /\ g.status \notin {"lobby", "finished"}
                  /\ IF g.status = "results-truth"
                       THEN IF req[p].nextPlayer # None
                              THEN /\ game'.status = "voting-author"
                                   /\ game'.currentRound = g.currentRound + 1
                                   /\ game'.currentPlayerId = req[p].nextPlayer
                              ELSE /\ game'.status = "finished"
                                   /\ game'.currentRound = g.currentRound
                                   /\ game'.currentPlayerId = g.currentPlayerId
                       ELSE /\ game'.status = PhaseAfter(g.status)
                            /\ game'.currentRound = g.currentRound
                            /\ game'.currentPlayerId = g.currentPlayerId
                  /\ game'.playerOrder = game.playerOrder
                  /\ game'.truthRound = game.truthRound]_vars

\* a next-phase request that read results-truth of round 1 is about to put the
\* next player on stage
C39_NextPlayerFound ==
    \E p \in Procs :
        /\ req[p].op = "next-phase"
        /\ req[p].pc = "next_update"
        /\ req[p].g.status = "results-truth"
        /\ req[p].g.currentRound = 1
        /\ req[p].nextPlayer # None

\* C40: with next-phase requests beside the votes of a round, the points of the
\* round are awarded once (no score exceeds what the votes on record are worth)
\* and every change of the status is one phase forward: to the next status of
\* the round, or from results-truth to voting-author or finished.
C40_RaceAwardsOnceAdvancesOnce ==
    [][/\ \A player \in VoterIds : score'[player] <= Entitled(votes', player)
       /\ game'.status # game.status =>
              IF game.status = "results-truth"
                THEN game'.status \in {"voting-author", "finished"}
                ELSE game'.status = PhaseAfter(game.status)]_vars
====
